---- MODULE Spec2Model ----
(***************************************************************************)
(* Model of analysis/11.mozzarellm.py: the resumable batch loop of main,   *)
(* the checkpoint store (load_existing_results, save_cluster_result) and   *)
(* the aggregation step (combine_results).                                 *)
(*                                                                         *)
(* Strings are sequences of tokens.  A token is a substring that contains  *)
(* none of the separators "_", "." and "/", or is one such separator, so   *)
(* str.split, str.startswith, str.endswith, str.replace and int() are      *)
(* computed on the text as the code computes them.                         *)
(***************************************************************************)
EXTENDS Integers, Sequences, FiniteSets, TLC

(* ---------------------------- bounds ----------------------------------- *)
MaxId == 1        \* cluster ids of the input table are 0..MaxId
MaxItems == 2     \* rows of cluster_df
MaxRuns == 2      \* invocations of main in one behaviour
MaxGenes == 1     \* longest categorized gene list of a result
MaxStray == 1     \* files already in clusters/ before the first invocation

(* ------------------------ Python strings ------------------------------- *)
Digits == <<"0", "1", "2", "3", "4", "5", "6", "7", "8", "9">>

IsDigit(t) == \E d \in 1..10 : Digits[d] = t

DigitVal(t) == (CHOOSE d \in 1..10 : Digits[d] = t) - 1

RECURSIVE PyStr(_)
\* str(n) of a non-negative int (main: str(row["cluster_id"]))
PyStr(n) == IF n < 10 THEN <<Digits[n + 1]>>
            ELSE PyStr(n \div 10) \o <<Digits[(n % 10) + 1]>>

RECURSIVE DecVal(_)
DecVal(s) == IF s = << >> THEN 0
             ELSE 10 * DecVal(SubSeq(s, 1, Len(s) - 1)) + DigitVal(s[Len(s)])

\* int(s): a value, or ValueError when s is empty or has a non-digit
PyInt(s) == IF s # << >> /\ \A k \in 1..Len(s) : IsDigit(s[k])
            THEN [ok |-> TRUE, val |-> DecVal(s)]
            ELSE [ok |-> FALSE, val |-> 0]

RECURSIVE PySplit(_, _)
\* s.split(sep): the pieces between the occurrences of sep
PySplit(s, sep) ==
    IF \A k \in 1..Len(s) : s[k] # sep THEN <<s>>
    ELSE LET p == CHOOSE k \in 1..Len(s) : s[k] = sep /\ \A j \in 1..(k - 1) : s[j] # sep
         IN  <<SubSeq(s, 1, p - 1)>> \o PySplit(SubSeq(s, p + 1, Len(s)), sep)

\* s.replace(a, b)
PyReplace(s, a, b) == [k \in 1..Len(s) |-> IF s[k] = a THEN b ELSE s[k]]

StartsWith(s, p) == Len(s) >= Len(p) /\ SubSeq(s, 1, Len(p)) = p

EndsWith(s, p) == Len(s) >= Len(p) /\ SubSeq(s, Len(s) - Len(p) + 1, Len(s)) = p

\* one file name for every id
ClusterFileName_Flat(cluster_id) == <<"cluster", "_", "0", ".", "json">>

\* f"cluster_{cluster_id}.json"
ClusterFileName(cluster_id) == <<"cluster", "_">> \o cluster_id \o <<".", "json">>

(* ------------------------ JSON documents ------------------------------- *)
\* File contents.  "corrupt": text json.load rejects (JSONDecodeError), which
\* is also what a file holds between open(filepath, "w") and the end of
\* json.dump; "nondict": valid JSON that is no object; "dict": an object,
\* obj maps its keys to their values; "tsv": the delimited summary table.
Corrupt == [kind |-> "corrupt"]

NonDict == [kind |-> "nondict"]

Dict(obj) == [kind |-> "dict", obj |-> obj]

Tsv(rows) == [kind |-> "tsv", rows |-> rows]

Parses(data) == data.kind \in {"dict", "nondict"}

PyNone == <<"None">>

\* d.get(key, default)
Get(d, key, default) == IF key \in DOMAIN d THEN d[key] ELSE default

(* ------------------------- the file system ----------------------------- *)
\* output_dir: fs.dir says whether output_dir/clusters exists, fs.store lists
\* its entries [name, data] in the order os.listdir returns them, fs.out maps
\* the names of the other files of output_dir to their contents.
ClustersDir == <<"clusters">>

Names(st) == {st[k].name : k \in 1..Len(st)}

IndexOf(st, name) == CHOOSE k \in 1..Len(st) : st[k].name = name

\* open(path, "w") + write in clusters/: an existing entry keeps its place in
\* the listing, a new one appears at place pos
PutEntry(st, name, data, pos) ==
    IF name \in Names(st)
    THEN [st EXCEPT ![IndexOf(st, name)].data = data]
    ELSE LET p == IF pos > Len(st) + 1 THEN Len(st) + 1 ELSE pos
         IN  SubSeq(st, 1, p - 1) \o <<[name |-> name, data |-> data]>>
                 \o SubSeq(st, p, Len(st))

PutOut(out, name, data) ==
    [n \in DOMAIN out \cup {name} |-> IF n = name THEN data ELSE out[n]]

\* with open(os.path.join(output_dir, relpath), "w") as f: f.write(data)
WriteFile(fs, relpath, data, pos) ==
    LET comps == PySplit(relpath, "/")
    IN  IF Len(comps) = 1
        THEN [ok |-> TRUE, fs |-> [fs EXCEPT !.out = PutOut(fs.out, comps[1], data)]]
        ELSE IF Len(comps) = 2 /\ comps[1] = ClustersDir /\ fs.dir
        THEN [ok |-> TRUE,
              fs |-> [fs EXCEPT !.store = PutEntry(fs.store, comps[2], data, pos)]]
        ELSE [ok |-> FALSE, fs |-> fs]

JsonExt == <<".", "json">>

(* --------------------- load_existing_results --------------------------- *)
RECURSIVE LoadEntries(_, _)
\* the loop over os.listdir(results_dir): a later file with the same
\* cluster_id replaces the earlier one; a non-object raises AttributeError
\* at data.get, which the except clause does not catch
LoadEntries(st, completed) ==
    IF st = << >> THEN [error |-> "", completed |-> completed]
    ELSE LET f == st[1]
             rest == SubSeq(st, 2, Len(st))
         IN  IF ~EndsWith(f.name, JsonExt) THEN LoadEntries(rest, completed)
             ELSE IF ~Parses(f.data) THEN LoadEntries(rest, completed)
             ELSE IF f.data.kind = "nondict"
             THEN [error |-> "AttributeError", completed |-> completed]
             ELSE LET cluster_id == Get(f.data.obj, "cluster_id", PyNone)
                  IN  IF cluster_id # PyNone
                      THEN LoadEntries(rest, PutOut(completed, cluster_id, f.data.obj))
                      ELSE LoadEntries(rest, completed)

EmptyMap == [n \in {} |-> << >>]

\* a discovery that finds nothing
load_existing_results_Blind(fs) == [error |-> "", completed |-> EmptyMap]

load_existing_results(fs) ==
    IF fs.dir THEN LoadEntries(fs.store, EmptyMap)
    ELSE [error |-> "", completed |-> EmptyMap]

(* ------------------------- combine_results ----------------------------- *)
\* key=lambda x: int(x.split("_")[1].split(".")[0])
\*               if x.startswith("cluster_") else 0
SortKey(x) ==
    IF StartsWith(x, <<"cluster", "_">>)
    THEN PyInt(PySplit(PySplit(x, "_")[2], ".")[1])
    ELSE [ok |-> TRUE, val |-> 0]

RECURSIVE Sorted(_)
\* sorted(listing, key=SortKey): stable, entries of equal key keep their
\* os.listdir order
Sorted(st) ==
    IF st = << >> THEN << >>
    ELSE LET e == st[Len(st)]
             front == Sorted(SubSeq(st, 1, Len(st) - 1))
             n == Cardinality({k \in 1..Len(front) :
                                  SortKey(front[k].name).val <= SortKey(e.name).val})
         IN  SubSeq(front, 1, n) \o <<e>> \o SubSeq(front, n + 1, Len(front))

\* an aggregation that reads only the first file of the listing
JsonFiles_First(st) == IF st = << >> THEN << >> ELSE <<st[1]>>

RECURSIVE JsonFiles(_)
\* the entries of the sorted listing that end with ".json"
JsonFiles(st) ==
    IF st = << >> THEN << >>
    ELSE (IF EndsWith(st[1].name, JsonExt) THEN <<st[1]>> ELSE << >>)
             \o JsonFiles(SubSeq(st, 2, Len(st)))

\* one row of the summaries table
SummaryRow(r) ==
    [cluster_id |-> Get(r, "cluster_id", PyNone),
     dominant_process |-> Get(r, "dominant_process", PyNone),
     pathway_confidence |-> Get(r, "pathway_confidence", PyNone),
     summary |-> Get(r, "summary", PyNone),
     num_established |-> Len(Get(r, "established_genes", << >>)),
     num_novel |-> Len(Get(r, "novel_role_genes", << >>)),
     num_uncharacterized |-> Len(Get(r, "uncharacterized_genes", << >>))]

\* an output name that keeps the separators of the model identifier
OutputBase_Raw(model_name) == model_name \o <<"_", "results">>

\* f"{model_name.replace('/', '_')}_results"
OutputBase(model_name) == PyReplace(model_name, "/", "_") \o <<"_", "results">>

CombinedJsonName(model_name) == OutputBase(model_name) \o JsonExt

SummariesTsvName(model_name) == OutputBase(model_name) \o <<"_", "summaries", ".", "tsv">>

\* combine_results(output_dir, model_name): the file system it leaves and the
\* exception that ended it ("" when it returned)
combine_results(fs, model_name) ==
    IF ~fs.dir THEN [error |-> "FileNotFoundError", fs |-> fs]
    ELSE IF \E k \in 1..Len(fs.store) : ~SortKey(fs.store[k].name).ok
    THEN [error |-> "ValueError", fs |-> fs]
    ELSE LET files == JsonFiles(Sorted(fs.store))
         IN  IF \E k \in 1..Len(files) : ~Parses(files[k].data)
             THEN [error |-> "JSONDecodeError", fs |-> fs]
             ELSE LET all_results == [k \in 1..Len(files) |-> files[k].data]
                      w1 == WriteFile(fs, CombinedJsonName(model_name),
                                      Dict([clusters |-> all_results, model |-> model_name]),
                                      Len(fs.store) + 1)
                  IN  IF ~w1.ok THEN [error |-> "FileNotFoundError", fs |-> fs]
                      ELSE IF \E k \in 1..Len(all_results) : all_results[k].kind # "dict"
                      THEN [error |-> "AttributeError", fs |-> w1.fs]
                      ELSE LET summaries == [k \in 1..Len(all_results) |->
                                                 SummaryRow(all_results[k].obj)]
                               w2 == WriteFile(w1.fs, SummariesTsvName(model_name),
                                               Tsv(summaries), Len(w1.fs.store) + 1)
                           IN  IF ~w2.ok THEN [error |-> "FileNotFoundError", fs |-> w1.fs]
                               ELSE [error |-> "", fs |-> w2.fs]

(* ----------------------------- inputs ---------------------------------- *)
\* cluster_df: one row per cluster id (reshape_to_clusters), the ids are the
\* integer cluster labels of the clustering table
RECURSIVE DistinctSeqs(_, _)
DistinctSeqs(S, n) ==
    IF n = 0 THEN {<< >>}
    ELSE LET shorter == DistinctSeqs(S, n - 1)
             ext == {qx \in shorter \X S :
                        Len(qx[1]) = n - 1 /\ \A k \in 1..Len(qx[1]) : qx[1][k] # qx[2]}
         IN  shorter \cup {Append(qx[1], qx[2]) : qx \in ext}

ClusterTables == DistinctSeqs(0..MaxId, MaxItems)

\* --model: a plain identifier and one with a namespace separator
ModelNames == {<<"m">>, <<"clusters", "/", "cluster", "_", "9">>}

Genes(n) == [k \in 1..n |-> <<"g">>]

\* what the analyzer's ClusterResult holds besides its own id
Payloads ==
    {[dominant_process |-> <<"p">>, pathway_confidence |-> <<"high">>, summary |-> <<"s">>,
      established_genes |-> Genes(n), novel_role_genes |-> Genes(MaxGenes),
      uncharacterized_genes |-> Genes(MaxGenes - n)] : n \in 0..MaxGenes}

\* the ids the analyzer may key its result with
AnalyzerIds == {PyStr(n) : n \in 0..MaxId}

\* result.clusters[result_cluster_id].model_dump()
ModelDump(result_cluster_id, payload) ==
    [cluster_id |-> result_cluster_id,
     dominant_process |-> payload.dominant_process,
     pathway_confidence |-> payload.pathway_confidence,
     summary |-> payload.summary,
     established_genes |-> payload.established_genes,
     novel_role_genes |-> payload.novel_role_genes,
     uncharacterized_genes |-> payload.uncharacterized_genes]

(* ------------------------- save_cluster_result ------------------------- *)
ClusterPath(cluster_id) == ClustersDir \o <<"/">> \o ClusterFileName(cluster_id)

\* os.makedirs(results_dir, exist_ok=True); open(filepath, "w"): the file
\* exists and holds no complete document yet
SaveOpen(f, cluster_id, pos) ==
    WriteFile([f EXCEPT !.dir = TRUE], ClusterPath(cluster_id), Corrupt, pos).fs

\* a dump still in a buffer: the file stays as open() left it
SaveDump_Unflushed(f, cluster_id, result_dict) == f

\* json.dump(result_dict, f, indent=2) has written the whole document
SaveDump(f, cluster_id, result_dict) ==
    WriteFile(f, ClusterPath(cluster_id), Dict(result_dict), 1).fs

save_cluster_result(f, cluster_id, result_dict, pos) ==
    SaveDump(SaveOpen(f, cluster_id, pos), cluster_id, result_dict)

(* ------------------------------ main ----------------------------------- *)
VARIABLES
    cluster_df,   \* the cluster ids of the rows of cluster_df, in row order
    model,        \* args.model
    resume,       \* args.resume of this invocation
    fs,           \* output_dir
    pc,           \* "idle", "loop", "saving", "done", "crashed" or "killed"
    stage,        \* how far this invocation got: "none", "load", "loop", "combine"
    i,            \* the loop index
    completed,    \* the dict completed
    skipped,      \* the counter skipped
    pending,      \* cluster_result while it is being saved
    error,        \* the exception that ended this invocation, "" if none
    runs,         \* invocations started so far
    log,          \* what this invocation did, one event per analyzer call, skip or save
    start,        \* output_dir when this invocation started
    loaded,       \* completed as load_existing_results returned it
    prevPc,       \* how the invocation before this one ended
    prevStage,    \* how far it got
    prevFailed,   \* the ids it called the analyzer for and did not save
    written,      \* cluster id -> number of complete saves, over all invocations
    faults        \* a kill or a failed save has happened

vars == <<cluster_df, model, resume, fs, pc, stage, i, completed, skipped, pending,
          error, runs, log, start, loaded, prevPc, prevStage, prevFailed, written, faults>>

total_clusters == Len(cluster_df)

\* a loop that takes the rows from the last to the first
RowId_Reversed(k) == PyStr(cluster_df[total_clusters - k])

\* cluster_id = str(row["cluster_id"])
RowId(k) == PyStr(cluster_df[k + 1])

\* an exception handler that writes nothing
ErrorLine_Silent(cluster_id, e) == << >>

\* tqdm.write(f"Error analyzing cluster {cluster_id}: {e}")
ErrorLine(cluster_id, e) == <<"Error analyzing cluster ">> \o cluster_id \o <<": ", e>>

\* tqdm.write(f"  Saved cluster {cluster_id}")
SavedLine(cluster_id) == <<"  Saved cluster ">> \o cluster_id

\* one step of the loop: msg is the line it wrote with tqdm.write
Event(op, id) ==
    [op |-> op, id |-> id, rid |-> id, files |-> {}, keys |-> {}, docids |-> {}, msg |-> << >>]

EmptyFs == [dir |-> FALSE, store |-> << >>, out |-> EmptyMap]

InitRun ==
    /\ pc = "idle" /\ stage = "none" /\ i = 0 /\ completed = EmptyMap /\ skipped = 0
    /\ pending = EmptyMap /\ error = "" /\ runs = 0 /\ log = << >>
    /\ loaded = EmptyMap /\ prevPc = "idle" /\ prevStage = "none" /\ prevFailed = {}
    /\ written = EmptyMap /\ faults = FALSE
    /\ cluster_df \in ClusterTables
    /\ model \in ModelNames
    /\ resume = FALSE
    /\ start = fs

\* the first invocation finds no output directory
Init == fs = EmptyFs /\ InitRun

\* a discovery that only a run with --resume makes
Discover_IfResume(flag, f) ==
    IF flag THEN load_existing_results(f) ELSE [error |-> "", completed |-> EmptyMap]

\* completed = load_existing_results(output_dir, args.model): args.resume
\* (flag) is parsed and never read
Discover(flag, f) == load_existing_results(f)

\* main up to the loop: parse_args, load_existing_results
StartRun ==
    /\ pc \in {"idle", "done", "crashed", "killed"}
    /\ runs < MaxRuns
    /\ runs' = runs + 1
    /\ prevPc' = pc /\ prevStage' = stage
    /\ prevFailed' = {log[k].id : k \in {j \in 1..Len(log) : log[j].op \in {"raise", "empty", "openfail", "savefail"}}}
    /\ start' = fs
    /\ resume' \in BOOLEAN
    /\ LET l == Discover(resume', fs)
       IN  /\ completed' = l.completed
           /\ loaded' = l.completed
           /\ error' = l.error
           /\ pc' = IF l.error = "" THEN "loop" ELSE "crashed"
           /\ stage' = IF l.error = "" THEN "loop" ELSE "load"
    /\ i' = 0 /\ skipped' = 0 /\ pending' = EmptyMap /\ log' = << >>
    /\ UNCHANGED <<cluster_df, model, fs, written, faults>>

InLoop == pc = "loop" /\ i < total_clusters

\* a loop that never consults completed
SkipTest_Never(cluster_id, done) == FALSE

\* if cluster_id in completed
SkipTest(cluster_id, done) == cluster_id \in DOMAIN done

\* if cluster_id in completed: skipped += 1; continue
Skip ==
    /\ InLoop
    /\ SkipTest(RowId(i), completed)
    /\ skipped' = skipped + 1
    /\ i' = i + 1
    /\ log' = Append(log, Event("skip", RowId(i)))
    /\ UNCHANGED <<cluster_df, model, resume, fs, pc, stage, completed, pending, error, runs,
                   start, loaded, prevPc, prevStage, prevFailed, written, faults>>

\* an exception handler that re-raises
OnException_Abort == "crashed"

\* except Exception: tqdm.write(...); continue
OnException == "loop"

\* analyzer.analyze raises
AnalyzeRaise ==
    /\ InLoop
    /\ ~SkipTest(RowId(i), completed)
    /\ pc' = OnException
    /\ error' = IF OnException = "loop" THEN error ELSE "AnalyzerError"
    /\ i' = i + 1
    /\ log' = Append(log, [Event("raise", RowId(i))
                             EXCEPT !.msg = ErrorLine(RowId(i), "AnalyzerError")])
    /\ UNCHANGED <<cluster_df, model, resume, fs, stage, completed, skipped, pending, runs,
                   start, loaded, prevPc, prevStage, prevFailed, written, faults>>

\* analyzer.analyze returns a result whose clusters dict is empty: the body
\* of "if result.clusters:" is not run and nothing is written
AnalyzeEmpty ==
    /\ InLoop
    /\ ~SkipTest(RowId(i), completed)
    /\ i' = i + 1
    /\ log' = Append(log, Event("empty", RowId(i)))
    /\ UNCHANGED <<cluster_df, model, resume, fs, pc, stage, completed, skipped, pending, error,
                   runs, start, loaded, prevPc, prevStage, prevFailed, written, faults>>

\* a result filed with the id the analyzer gave it
FiledResult_Echo(cluster_id, dump) == dump

\* cluster_result = ...model_dump(); cluster_result["cluster_id"] = cluster_id
FiledResult(cluster_id, dump) == [dump EXCEPT !.cluster_id = cluster_id]

\* a save under the id the analyzer returned
FiledId_Echo(cluster_id, result_cluster_id) == result_cluster_id

\* the id save_cluster_result is called with
FiledId(cluster_id, result_cluster_id) == cluster_id

\* the key of completed[...] = cluster_result
FiledKey(cluster_id, result_cluster_id) == cluster_id

\* analyzer.analyze returns one cluster keyed rid; save_cluster_result has
\* opened the file
AnalyzeOk ==
    /\ InLoop
    /\ ~SkipTest(RowId(i), completed)
    /\ \E rid \in AnalyzerIds, payload \in Payloads, pos \in 1..(Len(fs.store) + 1) :
          /\ pending' = FiledResult(RowId(i), ModelDump(rid, payload))
          /\ fs' = SaveOpen(fs, FiledId(RowId(i), rid), pos)
          /\ log' = Append(log, [Event("analyze", RowId(i)) EXCEPT !.rid = rid])
    /\ pc' = "saving"
    /\ UNCHANGED <<cluster_df, model, resume, stage, i, completed, skipped, error, runs,
                   start, loaded, prevPc, prevStage, prevFailed, written, faults>>

\* analyzer.analyze returns one cluster, os.makedirs or open raises OSError
SaveOpenFail ==
    /\ InLoop
    /\ ~SkipTest(RowId(i), completed)
    /\ \E made \in BOOLEAN : fs' = [fs EXCEPT !.dir = fs.dir \/ made]
    /\ log' = Append(log, [Event("openfail", RowId(i))
                             EXCEPT !.msg = ErrorLine(RowId(i), "OSError")])
    /\ pc' = OnException
    /\ error' = IF OnException = "loop" THEN error ELSE "OSError"
    /\ i' = i + 1
    /\ faults' = TRUE
    /\ UNCHANGED <<cluster_df, model, resume, stage, completed, skipped, pending, runs,
                   start, loaded, prevPc, prevStage, prevFailed, written>>

Changed(st1, st2) ==
    {n \in Names(st2) : n \notin Names(st1)
                          \/ st1[IndexOf(st1, n)].data # st2[IndexOf(st2, n)].data}

LastRid == log[Len(log)].rid

\* json.dump ends; completed[cluster_id] = cluster_result
SaveDone ==
    /\ pc = "saving"
    /\ fs' = SaveDump(fs, FiledId(RowId(i), LastRid), pending)
    /\ completed' = PutOut(completed, FiledKey(RowId(i), LastRid), pending)
    /\ written' = PutOut(written, pending.cluster_id, Get(written, pending.cluster_id, 0) + 1)
    /\ log' = Append(log,
                 [op |-> "save", id |-> RowId(i), rid |-> LastRid,
                  files |-> Changed(fs.store, fs'.store),
                  keys |-> {k \in DOMAIN completed' :
                               k \notin DOMAIN completed \/ completed'[k] # completed[k]},
                  docids |-> {pending.cluster_id},
                  msg |-> SavedLine(RowId(i))])
    /\ pc' = "loop"
    /\ i' = i + 1
    /\ pending' = EmptyMap
    /\ UNCHANGED <<cluster_df, model, resume, stage, skipped, error, runs, start, loaded,
                   prevPc, prevStage, prevFailed, faults>>

\* json.dump raises OSError: the file keeps what was written so far
SaveDumpFail ==
    /\ pc = "saving"
    /\ pc' = OnException
    /\ error' = IF OnException = "loop" THEN error ELSE "OSError"
    /\ log' = Append(log, [Event("savefail", RowId(i))
                             EXCEPT !.rid = LastRid, !.msg = ErrorLine(RowId(i), "OSError")])
    /\ i' = i + 1
    /\ pending' = EmptyMap
    /\ faults' = TRUE
    /\ UNCHANGED <<cluster_df, model, resume, fs, stage, completed, skipped, runs, start, loaded,
                   prevPc, prevStage, prevFailed, written>>

\* after the loop: combine_results(output_dir, args.model)
Combine ==
    /\ pc = "loop" /\ i = total_clusters
    /\ LET c == combine_results(fs, model)
       IN  /\ fs' = c.fs
           /\ error' = c.error
           /\ pc' = IF c.error = "" THEN "done" ELSE "crashed"
    /\ stage' = "combine"
    /\ UNCHANGED <<cluster_df, model, resume, i, completed, skipped, pending, runs, log, start,
                   loaded, prevPc, prevStage, prevFailed, written, faults>>

\* the process is killed in the loop
Kill ==
    /\ pc \in {"loop", "saving"}
    /\ pc' = "killed"
    /\ faults' = TRUE
    /\ UNCHANGED <<cluster_df, model, resume, fs, stage, i, completed, skipped, pending, error,
                   runs, log, start, loaded, prevPc, prevStage, prevFailed, written>>

Next ==
    \/ StartRun
    \/ Skip
    \/ AnalyzeRaise
    \/ AnalyzeEmpty
    \/ AnalyzeOk
    \/ SaveOpenFail
    \/ SaveDone
    \/ SaveDumpFail
    \/ Combine
    \/ Kill

Spec == Init /\ [][Next]_vars

(* ---------------- an output directory of any content ------------------- *)
\* file names clusters/ may hold: the names save_cluster_result gives, a
\* cluster_ name whose id part is no integer, a .json name without the
\* prefix and a name that is neither
StrayNames ==
    {ClusterFileName(PyStr(n)) : n \in 0..MaxId}
        \cup {<<"cluster", "_", "x", ".", "json">>, <<"notes", ".", "json">>, <<"README">>}

\* contents they may hold: unparseable text, a JSON value that is no object,
\* an object without cluster_id, an object with a cluster_id (and only one
\* of the three gene lists)
StrayData ==
    {Corrupt, NonDict, Dict([summary |-> <<"s">>])}
        \cup {Dict([cluster_id |-> PyStr(n), established_genes |-> Genes(MaxGenes)]) :
                 n \in 0..MaxId}

StrayFiles == [name : StrayNames, data : StrayData]

StrayStores ==
    {st \in DistinctSeqs(StrayFiles, MaxStray) :
        \A a, b \in 1..Len(st) : a # b => st[a].name # st[b].name}

\* the last of MaxRuns invocations finds clusters/ with up to MaxStray files
\* that earlier invocations, other programs or the user left there
InitDir ==
    /\ \E st \in StrayStores : fs = [dir |-> TRUE, store |-> st, out |-> EmptyMap]
    /\ pc = "idle" /\ stage = "none" /\ i = 0 /\ completed = EmptyMap /\ skipped = 0
    /\ pending = EmptyMap /\ error = "" /\ runs = MaxRuns - 1 /\ log = << >>
    /\ loaded = EmptyMap /\ prevPc = "idle" /\ prevStage = "none" /\ prevFailed = {}
    /\ written = EmptyMap /\ faults = FALSE
    /\ cluster_df \in ClusterTables
    /\ model \in ModelNames
    /\ resume = FALSE
    /\ start = fs

SpecDir == InitDir /\ [][Next]_vars

(* ------------------------ reading the history -------------------------- *)
IsCall(ev) == ev.op \in {"raise", "empty", "analyze", "openfail"}

\* the ids the analyzer was called for in this invocation, in call order
CallSeq == LET calls == SelectSeq(log, IsCall)
           IN  [k \in 1..Len(calls) |-> calls[k].id]

CallIds == {CallSeq[k] : k \in 1..Len(CallSeq)}

ItemIds == {RowId(k - 1) : k \in 1..total_clusters}

DataOf(st, name) == st[IndexOf(st, name)].data

\* clusters/ holds a complete result file for id
HasCheckpoint(f, id) ==
    /\ ClusterFileName(id) \in Names(f.store)
    /\ DataOf(f.store, ClusterFileName(id)).kind = "dict"

\* this invocation ran its loop to the end and called combine_results
RanToEnd == stage = "combine"

(* ------------------------------ C1 ------------------------------------- *)
\* C1 (resumability): when the invocation before this one was killed with N
\* of the M items saved, this invocation, once it has run its loop to the
\* end, has called the analyzer exactly for the other M-N items, once each
\* and in input order, and the N files saved before the kill hold what they
\* held then.
C1_Resumability ==
    (prevPc = "killed" /\ RanToEnd) =>
        LET NotSaved(k) == ~HasCheckpoint(start, RowId(k - 1))
            rest == SelectSeq([k \in 1..total_clusters |-> k], NotSaved)
        IN  /\ CallSeq = [k \in 1..Len(rest) |-> RowId(rest[k] - 1)]
            /\ \A id \in ItemIds :
                  HasCheckpoint(start, id) =>
                      /\ ClusterFileName(id) \in Names(fs.store)
                      /\ DataOf(fs.store, ClusterFileName(id))
                             = DataOf(start.store, ClusterFileName(id))

\* a resumed invocation that found one item saved and analyzed another
C1_Witness ==
    /\ prevPc = "killed" /\ RanToEnd
    /\ \E id \in ItemIds : HasCheckpoint(start, id)
    /\ CallSeq # << >>

(* ------------------------------ C2 ------------------------------------- *)
\* the report and the table as the last combine_results wrote them
Aggregates(f) == [n \in {CombinedJsonName(model), SummariesTsvName(model)} \cap DOMAIN f.out
                      |-> f.out[n]]

\* C2 as stated (idempotence): an invocation that follows one that ran to
\* its end makes no analyzer call, counts every item as skipped and writes
\* the report and the table the first one wrote.
C2_Idempotence_AsStated ==
    (~faults /\ prevPc = "done" /\ RanToEnd) =>
        /\ CallSeq = << >>
        /\ skipped = total_clusters
        /\ Aggregates(fs) = Aggregates(start)

\* C2 amended: the same, when the invocation before ran to its end and
\* called the analyzer for no item that it did not save (every item was
\* saved or skipped in it); the second invocation then also ends as the
\* first did.
C2_Idempotence ==
    (prevStage = "combine" /\ prevFailed = {} /\ RanToEnd) =>
        /\ CallSeq = << >>
        /\ skipped = total_clusters
        /\ pc = prevPc
        /\ Aggregates(fs) = Aggregates(start)

\* a second invocation over two items that the first one saved
C2_Witness ==
    /\ prevPc = "done" /\ prevFailed = {} /\ RanToEnd
    /\ total_clusters = MaxItems
    /\ DOMAIN Aggregates(fs) = {CombinedJsonName(model), SummariesTsvName(model)}

(* ------------------------------ C4 ------------------------------------- *)
\* C4 (id fidelity): every save of this invocation wrote exactly the file
\* cluster_<id>.json, a document whose cluster_id is id, and added exactly
\* the key id to completed, id being the id of the row, whatever id the
\* analyzer returned; the file and the entry still hold that document.
C4_IdFidelity ==
    \A k \in 1..Len(log) :
        log[k].op = "save" =>
            /\ log[k].files = {ClusterFileName(log[k].id)}
            /\ log[k].keys = {log[k].id}
            /\ log[k].docids = {log[k].id}
            /\ HasCheckpoint(fs, log[k].id)
            /\ DataOf(fs.store, ClusterFileName(log[k].id)).obj.cluster_id = log[k].id
            /\ log[k].id \in DOMAIN completed
            /\ completed[log[k].id].cluster_id = log[k].id

\* a save of a result the analyzer keyed with another id
C4_Witness == \E k \in 1..Len(log) : log[k].op = "save" /\ log[k].rid # log[k].id

(* ------------------------------ C5 ------------------------------------- *)
\* the rows this invocation is through with, in the order it finished them
OutcomeSeq == LET outs == SelectSeq(log, LAMBDA ev : ev.op # "analyze")
              IN  [k \in 1..Len(outs) |-> outs[k].id]

\* C5 (failure isolation): no invocation ends in its loop (it ends in
\* discovery, in combine_results or by a kill); in the loop the rows 0..i-1
\* each have one outcome, in input order, so after the loop every row has
\* one; and a row is skipped exactly when discovery found its id, whatever
\* happened to the rows before it.
C5_FailureIsolation ==
    /\ pc = "crashed" => stage \in {"load", "combine"}
    /\ pc = "loop" => OutcomeSeq = [k \in 1..i |-> RowId(k - 1)]
    /\ RanToEnd => OutcomeSeq = [k \in 1..total_clusters |-> RowId(k - 1)]
    /\ \A k \in 1..Len(log) : (log[k].op = "skip") <=> (log[k].id \in DOMAIN loaded)

\* the analyzer raised for a row and a later row was saved in the same run
C5_Witness ==
    /\ RanToEnd
    /\ \E a, b \in 1..Len(log) : a < b /\ log[a].op = "raise" /\ log[b].op = "save"

(* ------------------------------ C6 ------------------------------------- *)
\* the items of the report combine_results wrote
ReportItems(f) == f.out[CombinedJsonName(model)].obj.clusters

\* C6 (retry of failed items): a row whose analysis raised or gave no
\* cluster has no complete file and no entry in completed while the
\* invocation lasts, and had one analyzer call in it; the next invocation
\* that runs its loop to the end calls the analyzer for it; every report
\* combine_results writes has exactly one item per id saved so far.  When
\* nothing but analyses failed (no kill, no failed save), clusters/ holds
\* exactly one file per saved id and a report is written by every
\* invocation that runs to its end once an id has been saved.
C6_RetryFailed ==
    /\ \A k \in 1..Len(log) :
          log[k].op \in {"raise", "empty"} =>
              /\ log[k].id \notin DOMAIN completed
              /\ ~HasCheckpoint(fs, log[k].id)
              /\ Cardinality({j \in 1..Len(CallSeq) : CallSeq[j] = log[k].id}) = 1
    /\ RanToEnd => prevFailed \subseteq CallIds
    /\ pc = "done" =>
          /\ Len(ReportItems(fs)) = Cardinality(DOMAIN written)
          /\ {ReportItems(fs)[k].obj.cluster_id : k \in 1..Len(ReportItems(fs))}
                 = DOMAIN written
    /\ ~faults =>
          /\ pc # "saving" =>
                /\ Names(fs.store) = {ClusterFileName(id) : id \in DOMAIN written}
                /\ Len(fs.store) = Cardinality(DOMAIN written)
          /\ (RanToEnd /\ DOMAIN written # {}) => pc = "done"

\* two rows, one failed in the first invocation, which left one file, and
\* was saved in the second, whose report has two items
C6_Witness ==
    /\ ~faults /\ runs = 2 /\ pc = "done"
    /\ total_clusters = 2
    /\ Len(start.store) = 1
    /\ \E k \in 1..Len(log) : log[k].op = "save" /\ log[k].id \in prevFailed
    /\ Len(ReportItems(fs)) = 2

(* ------------------------------ C8 ------------------------------------- *)
\* C8 (skip is a no-op): for every row whose id discovery found, this
\* invocation has no analyzer call and no save, and every file of clusters/
\* that held that id when the invocation started holds what it held then;
\* over all invocations no id is saved twice.
C8_SkipNoOp ==
    /\ \A id \in ItemIds \cap DOMAIN loaded :
          /\ \A k \in 1..Len(log) : log[k].id = id => log[k].op = "skip"
          /\ \A k \in 1..Len(start.store) :
                (start.store[k].data.kind = "dict"
                     /\ Get(start.store[k].data.obj, "cluster_id", PyNone) = id)
                  => /\ start.store[k].name \in Names(fs.store)
                     /\ DataOf(fs.store, start.store[k].name) = start.store[k].data
    /\ \A id \in DOMAIN written : written[id] <= 1

\* an invocation skipped one row and saved another
C8_Witness ==
    /\ RanToEnd
    /\ \E a, b \in 1..Len(log) : log[a].op = "skip" /\ log[b].op = "save"

(* ------------------------------ C3 ------------------------------------- *)
\* data is no result document: it does not parse, or parses to something
\* that is no object with a cluster_id
Invalid(data) ==
    \/ ~Parses(data)
    \/ data.kind = "nondict"
    \/ data.kind = "dict" /\ "cluster_id" \notin DOMAIN data.obj

\* C3 as stated (corruption tolerance): when clusters/ held, at the start of
\* the invocation, a file cluster_<id>.json of invalid content for a row id,
\* discovery does not return id, the invocation does not end with an
\* exception in discovery or in combine_results, and once the loop has run
\* to the end the analyzer has been called for id.
C3_CorruptionTolerance ==
    \A id \in ItemIds :
        (/\ stage # "none"
         /\ ClusterFileName(id) \in Names(start.store)
         /\ Invalid(DataOf(start.store, ClusterFileName(id))))
          => /\ id \notin DOMAIN loaded
             /\ pc # "crashed"
             /\ RanToEnd => id \in CallIds

(* ------------------------------ C7 ------------------------------------- *)
\* C7 as stated (aggregation correctness): whatever clusters/ holds, when
\* load_existing_results returns k results for it, the combine_results call
\* of an invocation returns, the table and the report it wrote have k rows
\* and k items, one per result load_existing_results returns, and the three
\* counts of each row are the lengths of the three gene lists of its
\* result, 0 for a list it lacks.
C7_AggregationCorrectness ==
    (RanToEnd /\ load_existing_results(fs).error = "") =>
        /\ pc = "done"
        /\ LET found == load_existing_results(fs).completed
               rows == fs.out[SummariesTsvName(model)].rows
               items == ReportItems(fs)
           IN  /\ Len(rows) = Cardinality(DOMAIN found)
               /\ Len(items) = Cardinality(DOMAIN found)
               /\ {rows[k].cluster_id : k \in 1..Len(rows)} = DOMAIN found
               /\ \A k \in 1..Len(rows) :
                     LET r == found[rows[k].cluster_id]
                     IN  /\ items[k] = Dict(r)
                         /\ rows[k].num_established
                                = Len(Get(r, "established_genes", << >>))
                         /\ rows[k].num_novel = Len(Get(r, "novel_role_genes", << >>))
                         /\ rows[k].num_uncharacterized
                                = Len(Get(r, "uncharacterized_genes", << >>))

(* ------------------------------ C9 ------------------------------------- *)
\* C9 (combine_results leaves the store alone): in every state, calling
\* combine_results with any model identifier leaves clusters/ and its
\* listing as they are, changes no file of output_dir but the report and
\* the table of that identifier, and a second call right after the first
\* ends the same way and leaves the files the first one left.
C9_CombineFrame ==
    \A m \in ModelNames :
        LET c == combine_results(fs, m)
            own == {CombinedJsonName(m), SummariesTsvName(m)}
        IN  /\ c.fs.dir = fs.dir
            /\ c.fs.store = fs.store
            /\ DOMAIN fs.out \subseteq DOMAIN c.fs.out
            /\ DOMAIN c.fs.out \subseteq DOMAIN fs.out \cup own
            /\ \A n \in DOMAIN fs.out \ own : c.fs.out[n] = fs.out[n]
            /\ combine_results(c.fs, m) = c

\* combine_results has written the report and the table of an identifier
\* with a separator over a store that holds files
C9_Witness ==
    /\ pc = "done"
    /\ "/" \in {model[k] : k \in 1..Len(model)}
    /\ Len(fs.store) >= 1
    /\ DOMAIN fs.out = {CombinedJsonName(model), SummariesTsvName(model)}

(* ------------------------------ C10 ------------------------------------ *)
\* the id the claim orders a file name by: the integer between "cluster_"
\* and ".json", 0 for every other name
ClaimedKey(x) ==
    IF /\ StartsWith(x, <<"cluster", "_">>) /\ EndsWith(x, JsonExt)
       /\ PyInt(SubSeq(x, 3, Len(x) - 2)).ok
    THEN PyInt(SubSeq(x, 3, Len(x) - 2)).val
    ELSE 0

\* C10 as stated (aggregation order): no file name makes the
\* combine_results call of an invocation raise ValueError, and the items of
\* the report it writes are the .json files in ascending order of the id of
\* their names, a malformed name counting 0.
C10_AggregationOrder ==
    RanToEnd =>
        /\ error # "ValueError"
        /\ pc = "done" =>
              LET items == ReportItems(fs)
                  files == JsonFiles(fs.store)
              IN  \E perm \in [1..Len(items) -> 1..Len(files)] :
                      /\ \A a, b \in 1..Len(items) : a # b => perm[a] # perm[b]
                      /\ \A a \in 1..Len(items) : items[a] = files[perm[a]].data
                      /\ \A a, b \in 1..Len(items) :
                            a < b => ClaimedKey(files[perm[a]].name)
                                         <= ClaimedKey(files[perm[b]].name)

C12_ImmediatePersistence ==
    /\ \A k \in 1..Len(log) :
          log[k].op = "save" =>
              /\ HasCheckpoint(fs, log[k].id)
              /\ DataOf(fs.store, ClusterFileName(log[k].id)).obj.cluster_id = log[k].id
    /\ \A k \in 1..Len(log) :
          log[k].op = "analyze" =>
              \/ k = Len(log) /\ (pc = "saving" \/ pc = "killed")
              \/ /\ k < Len(log)
                 /\ log[k + 1].op \in {"save", "savefail"}
                 /\ log[k + 1].id = log[k].id
    /\ \A k \in 1..Len(log) :
          log[k].op \in {"save", "savefail"} =>
              k > 1 /\ log[k - 1].op = "analyze" /\ log[k - 1].id = log[k].id
    /\ pc = "saving" => (log # << >> /\ log[Len(log)].op = "analyze")

\* killed while saving the second row: the first is complete, the second
\* is partial
C12_Witness ==
    /\ pc = "killed" /\ Len(log) = 3
    /\ log[2].op = "save" /\ log[3].op = "analyze"
    /\ HasCheckpoint(fs, log[2].id)
    /\ ~HasCheckpoint(fs, log[3].id)

(* ------------------------------ C13 ------------------------------------ *)
\* the line names the row and carries an error detail
NamesRowAndError(msg, id) ==
    \E e \in {"AnalyzerError", "OSError"} :
        \E a \in 1..Len(msg) :
            /\ a + Len(id) <= Len(msg)
            /\ SubSeq(msg, a, a + Len(id) - 1) = id
            /\ msg[Len(msg)] = e

\* C13 (failed analyses): every analysis of this invocation that raised or
\* returned a result with no clusters wrote a line with the id of the row
\* and the error detail, and left the row with no complete file and no
\* entry in completed.
C13_FailedAnalysisLogged ==
    \A k \in 1..Len(log) :
        log[k].op \in {"raise", "empty"} =>
            /\ NamesRowAndError(log[k].msg, log[k].id)
            /\ log[k].id \notin DOMAIN completed
            /\ ~HasCheckpoint(fs, log[k].id)

(* ------------------------------ C14 ------------------------------------ *)
\* C14 (persistence errors): every save of this invocation that failed with
\* an OSError, in makedirs or open or during json.dump, wrote the line an
\* analysis error writes, with the id of the row and the error, and left
\* the row with no entry in completed and no complete file; the invocation
\* did not end in its loop and went on with the next row, so that after the
\* loop every row has its outcome; and the ids the invocation before this
\* one failed on were not found by this one's discovery and, once this one
\* has run its loop to the end, the analyzer has been called for each.
C14_PersistenceErrors ==
    /\ \A k \in 1..Len(log) :
          log[k].op \in {"openfail", "savefail"} =>
              /\ NamesRowAndError(log[k].msg, log[k].id)
              /\ log[k].msg = <<"Error analyzing cluster ">> \o log[k].id \o <<": ", "OSError">>
              /\ log[k].id \notin DOMAIN completed
              /\ ~HasCheckpoint(fs, log[k].id)
              /\ pc = "crashed" => stage = "combine"
              /\ pc = "loop" => i >= Cardinality({j \in 1..k : log[j].op # "analyze"})
              /\ RanToEnd => Len(OutcomeSeq) = total_clusters
    /\ prevFailed \cap DOMAIN loaded = {}
    /\ RanToEnd => prevFailed \subseteq CallIds

\* the save of the first of two rows failed during json.dump in the first
\* invocation, which went on to save the second and to combine_results;
\* the second invocation found the partial file, analysed the row again and
\* saved it
C14_Witness ==
    /\ runs = 2 /\ prevStage = "combine" /\ RanToEnd /\ Len(log) = 3
    /\ log[1].op = "analyze" /\ log[2].op = "save" /\ log[3].op = "skip"
    /\ log[2].id \in prevFailed
    /\ ClusterFileName(log[2].id) \in Names(start.store)
    /\ DataOf(start.store, ClusterFileName(log[2].id)).kind = "corrupt"
    /\ HasCheckpoint(fs, log[2].id)

(* ------------------------------ C15 ------------------------------------ *)
\* the id part of a file name, x.split("_")[1].split(".")[0]
FileId(name) == PySplit(PySplit(name, "_")[2], ".")[1]

\* C15 (CheckpointSet invariant): in every state of every sequence of
\* invocations that starts without clusters/, the killed and the failing
\* ones included, every file of clusters/ is named cluster_<id>.json, no two
\* files have the same id in their names, every complete file holds the
\* cluster_id its name gives, load_existing_results returns exactly the
\* complete files, each under that id, and every entry of completed holds
\* the cluster_id it is keyed with.
C15_CheckpointSetInvariant ==
    LET st == fs.store
        l == load_existing_results(fs)
        whole == {k \in 1..Len(st) : st[k].data.kind = "dict"}
    IN  /\ \A k \in 1..Len(st) :
              /\ Len(PySplit(st[k].name, "_")) = 2
              /\ st[k].name = <<"cluster", "_">> \o FileId(st[k].name) \o <<".", "json">>
        /\ \A a, b \in 1..Len(st) : FileId(st[a].name) = FileId(st[b].name) => a = b
        /\ \A k \in whole :
              /\ FileId(st[k].name) = Get(st[k].data.obj, "cluster_id", PyNone)
              /\ FileId(st[k].name) \in DOMAIN l.completed
              /\ l.completed[FileId(st[k].name)] = st[k].data.obj
        /\ l.error = ""
        /\ DOMAIN l.completed = {FileId(st[k].name) : k \in whole}
        /\ \A id \in DOMAIN completed : completed[id].cluster_id = id

\* after a kill or a failed save, a second invocation has two complete files,
\* one of a result the analyzer keyed with another id
C15_Witness ==
    /\ faults /\ runs = 2
    /\ Len(fs.store) = 2
    /\ \A k \in 1..2 : fs.store[k].data.kind = "dict"
    /\ \E k \in 1..Len(log) : log[k].op = "save" /\ log[k].rid # log[k].id

(* ------------------------------ C16 ------------------------------------ *)
\* the place of the row with this id in cluster_df
RowOf(id) == CHOOSE p \in 1..Len(cluster_df) : PyStr(cluster_df[p]) = id

\* C16 (ordering): every step of this invocation is for a row of cluster_df;
\* the steps follow the order of the rows, a step for an earlier row never
\* coming after one for a later row, and two steps are for the same row only
\* when they are an analysis and, next to it, the end or the failure of its
\* save; the rows touched so far are the first ones of cluster_df, none left
\* out; and no id has two analyzer calls in the invocation.
C16_Ordering ==
    /\ \A k \in 1..Len(log) :
          \E p \in 1..Len(cluster_df) : PyStr(cluster_df[p]) = log[k].id
    /\ \A a, b \in 1..Len(log) :
          a < b =>
              \/ RowOf(log[a].id) < RowOf(log[b].id)
              \/ /\ RowOf(log[a].id) = RowOf(log[b].id)
                 /\ b = a + 1
                 /\ log[a].op = "analyze"
                 /\ log[b].op \in {"save", "savefail"}
    /\ \E n \in 0..Len(cluster_df) :
          {RowOf(log[k].id) : k \in 1..Len(log)} = 1..n
    /\ \A a, b \in 1..Len(CallSeq) : CallSeq[a] = CallSeq[b] => a = b

\* two rows whose ids are not in increasing order, each analysed and saved
C16_Witness ==
    /\ RanToEnd /\ Len(cluster_df) = 2
    /\ cluster_df[1] > cluster_df[2]
    /\ Len(log) = 4
    /\ log[1].op = "analyze" /\ log[2].op = "save"
    /\ log[3].op = "analyze" /\ log[4].op = "save"

(* ------------------------------ C17 ------------------------------------ *)
\* C17 (the run ends with both aggregate files): when no invocation was
\* killed and no save failed, an invocation that has run its loop to the end
\* and called combine_results has ended without an exception and the output
\* directory holds the report and the table, whatever the rows' outcomes
\* were and also when clusters/ does not exist.
C17_AggregatesWritten ==
    (~faults /\ RanToEnd) =>
        /\ pc = "done"
        /\ error = ""
        /\ {CombinedJsonName(model), SummariesTsvName(model)} \subseteq DOMAIN fs.out

====
